---- MODULE Spec2Model ----
(***************************************************************************)
(* Model of the osos GitHub client (src/osos/api_github/api_github.py)     *)
(* and of the batch loop of the command line tool (src/osos/cli.py).       *)
(*                                                                         *)
(* The remote repository is a list of records served in pages of per_page  *)
(* records; a request that carries no "page" query parameter is answered   *)
(* with page 1.  A record is a natural number: 0 stands for a falsy entry  *)
(* (an empty JSON object), every other number for a non-empty record whose *)
(* number also is its date (commits) and its creation day (issues).        *)
(***************************************************************************)
EXTENDS Integers, Sequences, FiniteSets, TLC

VARIABLES
    records,      \* server: every record of the endpoint, in server order
    per_page,     \* server: number of records on a full page
    shape,        \* server: JSON shape of a page body
    stable,       \* server: FALSE once records were deleted during a call
    env_token,    \* what os.getenv('GITHUB_TOKEN', None) returned, once called
    token_arg,    \* the token argument given to Github(...)
    token,        \* self.token
    client,       \* "none", "ready" (constructed) or "failed" (raised)
    op,           \* the method being executed, "idle" when none is
    pc,           \* "idle", "loop", "update", "returned" or "raised"
    request,      \* the request URL (the part after base_req)
    kwstate,      \* the caller's params: value of its "state" key, "none" if unset
    page,         \* params['page']
    log,          \* every HTTP GET issued so far, with the status it received
    out,          \* get_all: the accumulator out
    yielded,      \* get_generator: the entries yielded so far
    lifetimes,    \* _issues_pulls: the list lifetimes
    date_iter,    \* commits: the argument date_iter
    search_all,   \* commits: the argument search_all
    counts,       \* commits: out['commits'], one count per entry of date_iter
    result,       \* how the call ended: the value returned or the error raised
    nrows,        \* cli: number of rows of the config table
    constructed,  \* cli: rows for which Osos(...) was invoked
    invoked,      \* cli: rows for which update was invoked
    completed     \* cli: rows whose update completed

server == <<records, per_page, shape, stable>>
github == <<env_token, token_arg, token, client>>
call == <<op, pc, request, kwstate, page, log, out, yielded, lifetimes,
          date_iter, search_all, counts, result>>
cli == <<nrows, constructed, invoked, completed>>
vars == <<server, github, call, cli>>

----------------------------------------------------------------------------
(* Bounds of the model *)
MaxRecords == 3
MaxPerPage == 2
MaxItem == 2
MaxRequests == 2
MaxRows == 3

Items == 0 .. MaxItem
Shapes == {"list", "dict", "str", "scalar"}
Statuses == {200, 404, 500}
NoToken == "None"
Tokens == {NoToken, "tok"}
EnvTokens == {NoToken, "envtok"}

SeqsUpTo(S, n) == UNION {[1 .. k -> S] : k \in 0 .. n}
Min(a, b) == IF a < b THEN a ELSE b

----------------------------------------------------------------------------
(* JSON bodies *)
NoneBody == [type |-> "none", val |-> <<>>, vals |-> <<>>]

RECURSIVE Dedupe(_)
Dedupe(s) ==
    IF s = <<>> THEN <<>>
    ELSE LET h == Dedupe(SubSeq(s, 1, Len(s) - 1))
             x == s[Len(s)]
         IN  IF \E i \in 1 .. Len(h) : h[i] = x THEN h ELSE Append(h, x)

NumPages(recs, pp) == (Len(recs) + pp - 1) \div pp

PageRecords(recs, pp, p) ==
    IF p < 1 \/ p > NumPages(recs, pp) THEN <<>>
    ELSE SubSeq(recs, (p - 1) * pp + 1, Min(p * pp, Len(recs)))

\* the body of page p: the page's records as a list, as a mapping keyed by
\* record (value: the page number), as a string, or a bare scalar
Body(recs, pp, sh, p) ==
    LET r == PageRecords(recs, pp, p) IN
    IF sh = "dict"
    THEN [type |-> "dict", val |-> Dedupe(r),
          vals |-> [i \in 1 .. Len(Dedupe(r)) |-> p]]
    ELSE [type |-> sh, val |-> r, vals |-> <<>>]

NoParams == [page |-> 0, state |-> "none"]

\* the server answers a request without a page parameter with page 1
Serve(recs, pp, sh, q) == Body(recs, pp, sh, IF q.page = 0 THEN 1 ELSE q.page)

\* Python's any(temp)
AnyOf(b) ==
    IF b.type = "scalar" THEN "TypeError"
    ELSE IF b.type = "str" THEN (IF Len(b.val) > 0 THEN "true" ELSE "false")
    ELSE IF \E i \in 1 .. Len(b.val) : b.val[i] # 0 THEN "true" ELSE "false"

\* Python's len(out)
LenOf(b) == Len(b.val)

\* a status check that lets client errors through
StatusOkBelow500(s) == s < 500

\* "if out.status_code != 200" of get_request, get_generator and get_all
StatusOk(s) == s = 200

----------------------------------------------------------------------------
Result(kind, status, req, value) ==
    [kind |-> kind, status |-> status, request |-> req, value |-> value]
NoResult == Result("none", 0, "", 0)

Init ==
    /\ records \in SeqsUpTo(Items, MaxRecords)
    /\ per_page \in 1 .. MaxPerPage
    /\ shape \in Shapes
    /\ stable = TRUE
    /\ env_token = NoToken
    /\ token_arg = NoToken
    /\ token = NoToken
    /\ client = "none"
    /\ op = "idle"
    /\ pc = "idle"
    /\ request = ""
    /\ kwstate = "none"
    /\ page = 0
    /\ log = <<>>
    /\ out = NoneBody
    /\ yielded = <<>>
    /\ lifetimes = <<>>
    /\ date_iter = <<>>
    /\ search_all = FALSE
    /\ counts = <<>>
    /\ result = NoResult
    /\ nrows = 0
    /\ constructed = <<>>
    /\ invoked = <<>>
    /\ completed = <<>>

\* Github.__init__(owner, repo, token=t); e is the value of the environment
\* variable GITHUB_TOKEN, read when t is None
Construct(t, e) ==
    /\ client = "none"
    /\ op = "idle"
    /\ token_arg' = t
    /\ env_token' = IF t = NoToken THEN e ELSE env_token
    /\ token' = IF t = NoToken THEN e ELSE t
    /\ IF t = NoToken
       THEN /\ client' = "failed"
            /\ result' = Result("OSError", 0, "", 0)
       ELSE /\ client' = "ready"
            /\ result' = result
    /\ UNCHANGED <<server, cli>>
    /\ UNCHANGED <<op, pc, request, kwstate, page, log, out, yielded,
                   lifetimes, date_iter, search_all, counts>>

----------------------------------------------------------------------------
(* HTTP *)

\* headers['Authorization'] = f'token {self.token}', and the query sent
LogEntry(url, q, s) ==
    [url |-> url, page |-> q.page, state |-> q.state, auth |-> token,
     status |-> s]

\* get_request: requests.get(request, headers=headers, **kwargs) passes the
\* caller's params on unchanged
RequestQuery(kw) == [page |-> 0, state |-> kw]

\* get_generator, get_all: params is popped from kwargs, params['page'] is
\* counted up, and requests.get(request, headers=headers, **kwargs) is called
\* without it
PaginateQuery(kw, pg) == NoParams

Finish(p, r) ==
    /\ pc' = p
    /\ result' = r


\* records are deleted on the server between two requests of a call
ServerDelete ==
    /\ stable
    /\ pc = "loop"
    /\ \E n \in 0 .. Len(records) - 1 : records' = SubSeq(records, 1, n)
    /\ stable' = FALSE
    /\ UNCHANGED <<per_page, shape, github, call, cli>>

\* Github.get_request
GetRequest(path, kw, s) ==
    /\ client = "ready"
    /\ op = "idle"
    /\ op' = "get_request"
    /\ request' = path
    /\ kwstate' = kw
    /\ log' = Append(log, LogEntry(path, RequestQuery(kw), s))
    /\ IF StatusOk(s)
       THEN Finish("returned", Result("return", s, path, 0))
       ELSE Finish("raised", Result("IOError", s, path, 0))
    /\ UNCHANGED <<server, github, cli, page, out, yielded, lifetimes,
                   date_iter, search_all, counts>>

----------------------------------------------------------------------------
(* get_all *)

CountOps == {"forks", "stargazers", "subscribers", "contributors"}
GetAllOps == {"get_all"} \cup CountOps
Path(name) ==
    CASE name = "forks" -> "/forks"
      [] name = "stargazers" -> "/stargazers"
      [] name = "subscribers" -> "/subscribers"
      [] name = "contributors" -> "/contributors"
      [] name = "issues" -> "/issues"
      [] name = "pulls" -> "/pulls"
      [] OTHER -> "/commits"

\* out.update(temp) on insertion-ordered mappings
RECURSIVE DictUpdate(_, _, _)
DictUpdate(o, t, i) ==
    IF i > Len(t.val) THEN o
    ELSE LET k == t.val[i]
             v == t.vals[i]
             hit == {j \in 1 .. Len(o.val) : o.val[j] = k}
             o2 == IF hit = {}
                   THEN [o EXCEPT !.val = Append(@, k), !.vals = Append(@, v)]
                   ELSE [o EXCEPT !.vals[CHOOSE j \in hit : TRUE] = v]
         IN  DictUpdate(o2, t, i + 1)

\* the branches of get_all that follow "if not any(temp): break"
Merge(o, t) ==
    IF o.type = "none" THEN [kind |-> "ok", out |-> t]
    ELSE IF t.type = "dict"
    THEN IF o.type = "dict"
         THEN [kind |-> "ok", out |-> DictUpdate(o, t, 1)]
         ELSE [kind |-> "AttributeError", out |-> o]
    ELSE IF t.type = "list"
    THEN IF o.type = "list"
         THEN [kind |-> "ok", out |-> [o EXCEPT !.val = @ \o t.val]]
         ELSE [kind |-> "TypeError", out |-> o]
    ELSE [kind |-> "TypeError", out |-> o]

StartCall(name, path, kw) ==
    /\ client = "ready"
    /\ op = "idle"
    /\ op' = name
    /\ pc' = "loop"
    /\ request' = path
    /\ kwstate' = kw
    /\ page' = 0
    /\ UNCHANGED <<server, github, cli, log, yielded, lifetimes, result>>

CallGetAll(path, kw) ==
    /\ StartCall("get_all", path, kw)
    /\ out' = NoneBody
    /\ UNCHANGED <<date_iter, search_all, counts>>

\* forks, stargazers, subscribers, contributors
CallCount(name) ==
    /\ StartCall(name, Path(name), "none")
    /\ out' = NoneBody
    /\ UNCHANGED <<date_iter, search_all, counts>>

\* one pass of the loop of get_all; on break, the return of get_all and, in
\* forks and the like, the len() taken of it
GetAllStep(s) ==
    /\ op \in GetAllOps
    /\ pc = "loop"
    /\ Len(log) < MaxRequests
    /\ page' = page + 1
    /\ LET q == PaginateQuery(kwstate, page + 1)
           temp == Serve(records, per_page, shape, q)
           m == Merge(out, temp)
       IN  /\ log' = Append(log, LogEntry(request, q, s))
           /\ IF ~StatusOk(s)
              THEN /\ Finish("raised", Result("IOError", s, request, 0))
                   /\ out' = out
              ELSE IF AnyOf(temp) = "TypeError"
              THEN /\ Finish("raised", Result("TypeError", s, request, 0))
                   /\ out' = out
              ELSE IF AnyOf(temp) = "false"
              THEN /\ out' = out
                   /\ IF op = "get_all"
                      THEN Finish("returned", Result("return", s, request, 0))
                      ELSE IF out.type = "none"
                      THEN Finish("raised", Result("TypeError", s, request, 0))
                      ELSE Finish("returned",
                                  Result("return", s, request, LenOf(out)))
              ELSE IF m.kind = "ok"
              THEN /\ out' = m.out
                   /\ UNCHANGED <<pc, result>>
              ELSE /\ Finish("raised", Result(m.kind, s, request, 0))
                   /\ out' = out
    /\ UNCHANGED <<server, github, cli, op, request, kwstate, yielded,
                   lifetimes, date_iter, search_all, counts>>

----------------------------------------------------------------------------
(* get_generator and its callers *)

GeneratorOps == {"get_generator", "issues_pulls", "commits"}

\* one pass of the loop of get_generator: "IOError", "TypeError", "exhausted"
\* (the break) or "page" (every entry of temp is yielded)
GenOutcome(temp, s) ==
    IF ~StatusOk(s) THEN "IOError"
    ELSE IF AnyOf(temp) = "TypeError" THEN "TypeError"
    ELSE IF AnyOf(temp) = "false" THEN "exhausted"
    ELSE IF temp.type # "list" THEN "TypeError"
    ELSE "page"

GenFetch(s) ==
    /\ pc = "loop"
    /\ Len(log) < MaxRequests
    /\ page' = page + 1
    /\ log' = Append(log, LogEntry(request,
                                   PaginateQuery(kwstate, page + 1), s))

GenTemp == Serve(records, per_page, shape, PaginateQuery(kwstate, page + 1))

CallGetGenerator(path, kw) ==
    /\ StartCall("get_generator", path, kw)
    /\ UNCHANGED <<out, date_iter, search_all, counts>>

\* get_generator driven by a consumer that takes every entry
GetGeneratorStep(s) ==
    /\ op = "get_generator"
    /\ GenFetch(s)
    /\ LET g == GenOutcome(GenTemp, s) IN
       CASE g = "page" ->
              /\ yielded' = yielded \o GenTemp.val
              /\ UNCHANGED <<pc, result>>
         [] g = "exhausted" ->
              /\ yielded' = yielded
              /\ Finish("returned", Result("return", s, request, Len(yielded)))
         [] OTHER ->
              /\ yielded' = yielded
              /\ Finish("raised", Result(g, s, request, 0))
    /\ UNCHANGED <<server, github, cli, op, request, kwstate, out, lifetimes,
                   date_iter, search_all, counts>>

\* _issues_pulls: item['created_at'], item['closed_at'] and now, in days
CreatedAt(item) == item
ClosedAt(item) == item + item
NowDay == MaxItem + MaxItem + 1
Lifetime(item, st) ==
    (IF st = "closed" THEN ClosedAt(item) ELSE NowDay) - CreatedAt(item)

\* the body of "for item in items" over the entries of one page: the entries
\* taken, the lifetimes appended, and whether item['created_at'] failed
RECURSIVE ScanItems(_, _, _, _)
ScanItems(entries, i, lts, st) ==
    IF i > Len(entries) THEN [lifetimes |-> lts, taken |-> i - 1, err |-> FALSE]
    ELSE IF entries[i] = 0 THEN [lifetimes |-> lts, taken |-> i, err |-> TRUE]
    ELSE ScanItems(entries, i + 1, Append(lts, Lifetime(entries[i], st)), st)

\* _issues_pulls, and so issues_open, issues_closed, pulls_open, pulls_closed
CallIssuesPulls(option, st) ==
    /\ StartCall("issues_pulls", Path(option), st)
    /\ UNCHANGED <<out, date_iter, search_all, counts>>

\* one page of items taken from the generator by _issues_pulls; once the
\* generator is exhausted, the dict literal is built, len(items) first
IssuesPullsStep(s) ==
    /\ op = "issues_pulls"
    /\ GenFetch(s)
    /\ LET g == GenOutcome(GenTemp, s)
           sc == ScanItems(GenTemp.val, 1, lifetimes, kwstate)
       IN
       CASE g = "page" ->
              /\ yielded' = yielded \o SubSeq(GenTemp.val, 1, sc.taken)
              /\ lifetimes' = sc.lifetimes
              /\ IF sc.err
                 THEN Finish("raised", Result("KeyError", s, request, 0))
                 ELSE UNCHANGED <<pc, result>>
         [] g = "exhausted" ->
              /\ UNCHANGED <<yielded, lifetimes>>
              /\ Finish("raised", Result("TypeError", s, request, 0))
         [] OTHER ->
              /\ UNCHANGED <<yielded, lifetimes>>
              /\ Finish("raised", Result(g, s, request, 0))
    /\ UNCHANGED <<server, github, cli, op, request, kwstate, out,
                   date_iter, search_all, counts>>

\* commits: the body of "for com in commit_iter" over the entries of one page
RECURSIVE ScanCommits(_, _, _, _, _)
ScanCommits(entries, i, cnts, dates, all) ==
    IF i > Len(entries) THEN [counts |-> cnts, taken |-> i - 1, end |-> "more"]
    ELSE IF entries[i] = 0
    THEN [counts |-> cnts, taken |-> i, end |-> "KeyError"]
    ELSE LET c_date == entries[i]
             hit == {j \in 1 .. Len(dates) : dates[j] = c_date}
             first == CHOOSE j \in hit : \A k \in hit : j <= k
             before == IF hit = {} THEN 1 .. Len(dates) ELSE 1 .. first - 1
             stop == hit = {} /\ ~\E j \in before : c_date > dates[j]
             cnts2 == IF hit = {} THEN cnts ELSE [cnts EXCEPT ![first] = @ + 1]
         IN  IF stop /\ ~all
             THEN [counts |-> cnts2, taken |-> i, end |-> "stopped"]
             ELSE ScanCommits(entries, i + 1, cnts2, dates, all)

\* date_iter: distinct dates, given in ascending order
DateIters ==
    {d \in SeqsUpTo(1 .. MaxItem, MaxItem) :
        \A i, j \in 1 .. Len(d) : i < j => d[i] < d[j]}

CallCommits(dates, all) ==
    /\ StartCall("commits", "/commits", "none")
    /\ date_iter' = dates
    /\ search_all' = all
    /\ counts' = [i \in 1 .. Len(dates) |-> 0]
    /\ out' = out

\* one page of commits taken from the generator by commits
CommitsStep(s) ==
    /\ op = "commits"
    /\ GenFetch(s)
    /\ LET g == GenOutcome(GenTemp, s)
           sc == ScanCommits(GenTemp.val, 1, counts, date_iter, search_all)
       IN
       CASE g = "page" ->
              /\ yielded' = yielded \o SubSeq(GenTemp.val, 1, sc.taken)
              /\ counts' = sc.counts
              /\ IF sc.end = "KeyError"
                 THEN Finish("raised", Result("KeyError", s, request, 0))
                 ELSE IF sc.end = "stopped"
                 THEN Finish("returned", Result("return", s, request, 0))
                 ELSE UNCHANGED <<pc, result>>
         [] g = "exhausted" ->
              /\ UNCHANGED <<yielded, counts>>
              /\ Finish("returned", Result("return", s, request, 0))
         [] OTHER ->
              /\ UNCHANGED <<yielded, counts>>
              /\ Finish("raised", Result(g, s, request, 0))
    /\ UNCHANGED <<server, github, cli, op, request, kwstate, out, lifetimes,
                   date_iter, search_all>>

\* commit_count: the first page is fetched by get_request; links['last'] is
\* there when the server has more than one page; matches tells whether the
\* last url ends in page=<digits>; str.replace('page=') is a call with one
\* argument, a TypeError, so the last page is never fetched
CommitCount(s, matches) ==
    /\ client = "ready"
    /\ op = "idle"
    /\ op' = "commit_count"
    /\ request' = "/commits"
    /\ log' = Append(log, LogEntry("/commits", RequestQuery("none"), s))
    /\ IF ~StatusOk(s)
       THEN Finish("raised", Result("IOError", s, "/commits", 0))
       ELSE IF NumPages(records, per_page) < 2
       THEN Finish("raised", Result("KeyError", s, "/commits", 0))
       ELSE IF ~matches
       THEN Finish("raised", Result("RuntimeError", s, "/commits", 0))
       ELSE Finish("raised", Result("TypeError", s, "/commits", 0))
    /\ UNCHANGED <<server, github, cli, kwstate, page, out, yielded,
                   lifetimes, date_iter, search_all, counts>>

----------------------------------------------------------------------------
(* cli.main, config mode *)

\* main up to the loop, for a config of n rows: pre is "ok", or the error of
\* the asserts on the config path or of the check of the required columns
CliMain(n, pre) ==
    /\ client = "none"
    /\ op = "idle"
    /\ op' = "cli"
    /\ nrows' = n
    /\ IF pre # "ok"
       THEN Finish("raised", Result(pre, 0, "", 0))
       ELSE IF n = 0
       THEN Finish("returned", Result("return", 0, "", 0))
       ELSE /\ pc' = "row"
            /\ result' = result
    /\ UNCHANGED <<server, github, request, kwstate, page, log, out, yielded,
                   lifetimes, date_iter, search_all, counts, constructed,
                   invoked, completed>>

\* a failed row, the way a loop that caught the failure would go on
CliConstructIsolated(ok) ==
    /\ op = "cli"
    /\ pc = "row"
    /\ constructed' = Append(constructed, Len(constructed) + 1)
    /\ IF ok
       THEN /\ pc' = "update"
            /\ result' = result
       ELSE IF Len(constructed) + 1 = nrows
       THEN Finish("returned", Result("return", 0, "", 0))
       ELSE UNCHANGED <<pc, result>>
    /\ UNCHANGED <<server, github, op, request, kwstate, page, log, out,
                   yielded, lifetimes, date_iter, search_all, counts, nrows,
                   invoked, completed>>

\* osos = Osos(row['git_owner'], row['git_repo'], pypi_name=...) for the next
\* row; it returns (ok) or raises, and main catches nothing
CliConstruct(ok) ==
    /\ op = "cli"
    /\ pc = "row"
    /\ constructed' = Append(constructed, Len(constructed) + 1)
    /\ IF ok
       THEN /\ pc' = "update"
            /\ result' = result
       ELSE Finish("raised", Result("Exception", 0, "", 0))
    /\ UNCHANGED <<server, github, op, request, kwstate, page, log, out,
                   yielded, lifetimes, date_iter, search_all, counts, nrows,
                   invoked, completed>>

\* osos.update(row['fpath_out']) for the row just constructed, then the next
\* pass of the loop or its end
CliUpdate(ok) ==
    /\ op = "cli"
    /\ pc = "update"
    /\ invoked' = Append(invoked, Len(constructed))
    /\ IF ok
       THEN /\ completed' = Append(completed, Len(constructed))
            /\ IF Len(constructed) = nrows
               THEN Finish("returned", Result("return", 0, "", 0))
               ELSE /\ pc' = "row"
                    /\ result' = result
       ELSE /\ completed' = completed
            /\ Finish("raised", Result("Exception", 0, "", 0))
    /\ UNCHANGED <<server, github, op, request, kwstate, page, log, out,
                   yielded, lifetimes, date_iter, search_all, counts, nrows,
                   constructed>>

Next ==
    \/ \E t \in Tokens, e \in EnvTokens : Construct(t, e)
    \/ ServerDelete
    \/ \E kw \in {"none", "open"}, s \in Statuses : GetRequest("/forks", kw, s)
    \/ \E kw \in {"none", "open"} : CallGetAll("/forks", kw)
    \/ \E name \in CountOps : CallCount(name)
    \/ \E s \in Statuses : GetAllStep(s)
    \/ \E kw \in {"none", "open"} : CallGetGenerator("/commits", kw)
    \/ \E s \in Statuses : GetGeneratorStep(s)
    \/ \E option \in {"issues", "pulls"}, st \in {"open", "closed"} :
          CallIssuesPulls(option, st)
    \/ \E s \in Statuses : IssuesPullsStep(s)
    \/ \E dates \in DateIters, all \in BOOLEAN : CallCommits(dates, all)
    \/ \E s \in Statuses : CommitsStep(s)
    \/ \E s \in Statuses, matches \in BOOLEAN : CommitCount(s, matches)
    \/ \E n \in 0 .. MaxRows, pre \in {"ok", "AssertionError", "KeyError"} :
          CliMain(n, pre)
    \/ \E ok \in BOOLEAN : CliConstruct(ok)
    \/ \E ok \in BOOLEAN : CliUpdate(ok)

Spec == Init /\ [][Next]_vars

----------------------------------------------------------------------------
(* The claims *)

\* every response so far had status 200
AllOk == \A k \in 1 .. Len(log) : log[k].status = 200

IsPrefix(a, b) == Len(a) <= Len(b) /\ a = SubSeq(b, 1, Len(a))

\* a server that kept its records during the call and serves them as lists
\* of non-empty records
ListServer ==
    /\ stable
    /\ shape = "list"
    /\ \A i \in 1 .. Len(records) : records[i] # 0

PaginateOps == GetAllOps \cup GeneratorOps
Ended == pc \in {"returned", "raised"}

\* C1: on a list server with N records on P >= 1 non-empty pages, get_all
\* returns and get_generator yields exactly the N records in server order:
\* what was accumulated or yielded so far is always a prefix of the server's
\* records, and it is all of them when the call returns.
C1_PaginationInOrder ==
    (op \in {"get_all", "get_generator"} /\ ListServer /\ Len(records) >= 1
     /\ AllOk)
    => LET acc == IF op = "get_all" THEN out.val ELSE yielded
       IN  /\ IsPrefix(acc, records)
           /\ pc = "returned" => acc = records

\* C2: the k-th GET of get_generator and get_all carries page = k and the
\* caller's query parameters.
C2_RequestsCarryPage ==
    op \in PaginateOps
    => \A k \in 1 .. Len(log) : log[k].page = k /\ log[k].state = kwstate

\* C3: constructing a client fails only when neither the token argument nor
\* GITHUB_TOKEN gives a credential; otherwise the client holds the explicit
\* token, or the environment's when none was passed.
C3_ConstructFailsOnlyWithoutCredential ==
    /\ client = "failed" => (token_arg = NoToken /\ env_token = NoToken)
    /\ client = "ready"
       => /\ token # NoToken
          /\ token = IF token_arg # NoToken THEN token_arg ELSE env_token

\* C4: a response with a status other than 200, at whichever request, ends
\* the call with an IOError carrying that status and the request URL, with
\* no value returned; it is the last request of the call, the step that
\* receives it yields and accumulates nothing, and nothing happens after it.
C4_FailedInv ==
    op \in PaginateOps \cup {"get_request", "commit_count"}
    => \A k \in 1 .. Len(log) :
          log[k].status # 200
          => /\ k = Len(log)
             /\ pc = "raised"
             /\ result.kind = "IOError"
             /\ result.status = log[k].status
             /\ result.request = log[k].url
C4_FailedStep ==
    /\ pc # "raised"
    /\ (Len(log') > Len(log) /\ log'[Len(log')].status # 200)
       => (yielded' = yielded /\ out' = out)
C4_NonOkRaises == []C4_FailedInv /\ [][C4_FailedStep]_vars

\* get_all fails on its second request, with a page already accumulated
C4_Witness ==
    /\ op = "get_all"
    /\ pc = "raised"
    /\ result.kind = "IOError"
    /\ result.status = 404
    /\ Len(log) = 2
    /\ out.type = "list"
    /\ Len(out.val) > 0

\* C5: get_all never returns a page that is neither a list nor a mapping as
\* (part of) its result.
C5_GetAllRejectsMalformedPage ==
    (op \in GetAllOps /\ pc = "returned") => out.type \in {"none", "list", "dict"}

\* C6: when every page is empty, get_all returns an empty collection, forks,
\* stargazers, subscribers and contributors return 0, and get_generator
\* yields nothing.
C6_EmptyPagesGiveEmptyResult ==
    (ListServer /\ records = <<>> /\ AllOk)
    => /\ (op = "get_all" /\ pc = "returned")
          => (out.type # "none" /\ LenOf(out) = 0)
       /\ (op \in CountOps /\ Ended)
          => (result.kind = "return" /\ result.value = 0)
       /\ (op = "get_generator" /\ pc = "returned") => yielded = <<>>

SortedDescending(s) == \A i, j \in 1 .. Len(s) : i < j => s[i] >= s[j]

\* C7: over a commit list sorted descending by date, commits with
\* search_all=False counts no date more often than the scan of the whole list
\* with search_all=True does, and returns the counts of that scan.
C7_CommitsMatchFullScan ==
    (op = "commits" /\ ~search_all /\ ListServer /\ SortedDescending(records)
     /\ AllOk)
    => LET full == ScanCommits(records, 1, [i \in 1 .. Len(date_iter) |-> 0],
                               date_iter, TRUE).counts
       IN  /\ \A j \in 1 .. Len(date_iter) : counts[j] <= full[j]
           /\ pc = "returned" => counts = full

\* C8: _issues_pulls completes normally for every finite item sequence and
\* returns the number of items fetched.
C8_IssuesPullsReturnsCount ==
    (op = "issues_pulls" /\ ListServer /\ AllOk /\ Ended)
    => (result.kind = "return" /\ result.value = Len(records))

\* C9: for a repository with L >= 2 pages, commit_count returns
\* items_per_page * (L - 1) + items_in_last_page.
C9_CommitCountFormula ==
    (op = "commit_count" /\ ListServer /\ AllOk /\ Ended
     /\ result.kind # "RuntimeError"
     /\ NumPages(records, per_page) >= 2)
    => LET L == NumPages(records, per_page)
       IN  /\ result.kind = "return"
           /\ result.value = Len(PageRecords(records, per_page, 1)) * (L - 1)
                             + Len(PageRecords(records, per_page, L))

Rows(k) == [i \in 1 .. k |-> i]

\* C10: batch mode takes the rows in order, one Osos and one update per row;
\* a failure at row i ends the run with no Osos and no update for a later
\* row, and the updates completed before it are kept.
C10_BatchInv ==
    op = "cli"
    => /\ constructed = Rows(Len(constructed))
       /\ invoked = Rows(Len(invoked))
       /\ completed = Rows(Len(completed))
       /\ Len(constructed) <= nrows
       /\ pc = "row" => (Len(constructed) < nrows /\ invoked = constructed
                         /\ completed = constructed)
       /\ pc = "update" => (Len(invoked) = Len(constructed) - 1
                            /\ completed = invoked)
       /\ pc = "returned" => (Len(constructed) = nrows /\ invoked = constructed
                              /\ completed = constructed)
       /\ pc = "raised"
          => \/ constructed = <<>> /\ invoked = <<>> /\ completed = <<>>
             \/ /\ Len(completed) = Len(constructed) - 1
                /\ Len(invoked) \in {Len(constructed) - 1, Len(constructed)}
C10_BatchStep ==
    op = "cli" => (pc # "raised" /\ IsPrefix(completed, completed'))
C10_BatchAbortsOnFailure == []C10_BatchInv /\ [][C10_BatchStep]_vars

\* the update of row 2 of 3 fails after row 1 was completed
C10_Witness ==
    /\ op = "cli"
    /\ pc = "raised"
    /\ nrows = 3
    /\ constructed = <<1, 2>>
    /\ invoked = <<1, 2>>
    /\ completed = <<1>>
====
